---- MODULE Spec2Model ----
(***************************************************************************)
(* Model of ffi-toolkit (src/ffi-toolkit/src/lib.rs): the C-string         *)
(* marshaling helpers, raw_ptr / cast_const, the CodeAndMessage contract   *)
(* and catch_panic_response, together with the response type and closures  *)
(* of tests/catch_panic_response.rs.                                       *)
(*                                                                         *)
(* Text is a sequence of Unicode code points (a Rust String is always      *)
(* valid UTF-8); a C buffer is a sequence of bytes ending in a 0 byte.     *)
(* Pointers are naturals, 0 is the null pointer.  Panics unwind (the       *)
(* default panic strategy, the one catch_unwind is written for).           *)
(***************************************************************************)
EXTENDS Integers, Sequences, FiniteSets, TLC

\* ------------------------------------------------------------------ bounds
\* longest text handed to rust_str_to_c_str in the marshaling runs
MaxLen == 3
\* number of concurrent catch_panic_response invocations (one per thread)
NumCalls == 2
\* responses one callback may put on the heap with raw_ptr
MaxOpAllocs == 2

\* ------------------------------------------------------------------ text
NullPtr == 0

\* code points used in texts: NUL, 'A', and a two-byte character (e-acute)
Chars == {0, 65, 233}
\* U+FFFD, what String::from_utf8_lossy substitutes
ReplacementChar == 65533

RECURSIVE Concat(_)
Concat(ss) == IF ss = <<>> THEN <<>> ELSE Head(ss) \o Concat(Tail(ss))

\* UTF-8 bytes of one code point below U+0800 (String's internal encoding)
Utf8Char(c) == IF c < 128 THEN <<c>> ELSE <<192 + (c \div 64), 128 + (c % 64)>>

\* s.into(): String -> its bytes
Utf8(s) == Concat([i \in 1..Len(s) |-> Utf8Char(s[i])])

IsCont(b) == b >= 128 /\ b <= 191

\* String::from_utf8_lossy on bytes: well-formed one- and two-byte sequences
\* decode, every other byte becomes U+FFFD
RECURSIVE to_string_lossy(_)
to_string_lossy(bs) ==
    IF bs = <<>> THEN <<>>
    ELSE IF bs[1] < 128 THEN <<bs[1]>> \o to_string_lossy(Tail(bs))
    ELSE IF bs[1] >= 194 /\ bs[1] <= 223 /\ Len(bs) >= 2 /\ IsCont(bs[2])
         THEN <<(bs[1] - 192) * 64 + (bs[2] - 128)>> \o to_string_lossy(Tail(Tail(bs)))
    ELSE <<ReplacementChar>> \o to_string_lossy(Tail(bs))

HasNul(bs) == \E i \in 1..Len(bs) : bs[i] = 0

\* CString::new(bytes): Err(NulError) on an interior 0 byte, else bytes + NUL
CStringNew(bs) ==
    IF HasNul(bs) THEN [ok |-> FALSE, bytes |-> <<>>]
    ELSE [ok |-> TRUE, bytes |-> bs \o <<0>>]

\* variant: an allocator that hands out one fixed slot (a shared static)
FreshAddrStatic(h) == 1

\* the allocator: a fresh address of a heap (a function from addresses)
FreshAddr(h) == Cardinality(DOMAIN h) + 1

\* CString::into_raw: the bytes move to the C heap, the caller gets the address
into_raw(cs, bytes) ==
    LET a == FreshAddr(cs)
    IN  [ptr |-> a, cstrs |-> (a :> [bytes |-> bytes, live |-> TRUE]) @@ cs]

\* rust_str_to_c_str: CString::new(s.into()).unwrap().into_raw();
\* unwrap() of the Err panics
rust_str_to_c_str(cs, s) ==
    LET r == CStringNew(Utf8(s))
    IN  IF r.ok
        THEN [panic |-> FALSE] @@ into_raw(cs, r.bytes)
        ELSE [panic |-> TRUE, ptr |-> NullPtr, cstrs |-> cs]

\* strlen: index of the first 0 byte
RECURSIVE FirstNul(_, _)
FirstNul(bs, i) == IF i > Len(bs) \/ bs[i] = 0 THEN i ELSE FirstNul(bs, i + 1)

\* CStr::from_ptr(x): the bytes before the terminator
CStrFromPtr(cs, x) == SubSeq(cs[x].bytes, 1, FirstNul(cs[x].bytes, 1) - 1)

\* variant: decoding with CString::from_raw, which takes the buffer over and
\* drops it
c_str_to_rust_str_FromRaw(cs, x) ==
    [text |-> IF x = NullPtr THEN <<>> ELSE to_string_lossy(CStrFromPtr(cs, x)),
     cstrs |-> IF x = NullPtr THEN cs ELSE [cs EXCEPT ![x].live = FALSE]]

\* c_str_to_rust_str: "" for null, else the lossy decoding of the buffer; the
\* buffer is only borrowed (CStr), so the heap is returned as it was
c_str_to_rust_str(cs, x) ==
    [text |-> IF x = NullPtr THEN <<>> ELSE to_string_lossy(CStrFromPtr(cs, x)),
     cstrs |-> cs]

\* free_c_str: no-op on null, else the CString is rebuilt and dropped
free_c_str(cs, ptr) ==
    IF ptr # NullPtr THEN [cs EXCEPT ![ptr].live = FALSE] ELSE cs

\* ------------------------------------------------------------------ responses
\* FCPResponseStatus, #[repr(C)]
FCPNoError == 0
FCPUnclassifiedError == 1
FCPCallerError == 2
FCPReceiverError == 3

\* "Rust panic: "
RustPanicPrefix == <<82, 117, 115, 116, 32, 112, 97, 110, 105, 99, 58, 32>>
\* "no unwind information"
NoUnwindInformation ==
    <<110, 111, 32, 117, 110, 119, 105, 110, 100, 32, 105, 110, 102, 111, 114,
      109, 97, 116, 105, 111, 110>>
\* "Object argument was null"
ObjectArgumentWasNull ==
    <<79, 98, 106, 101, 99, 116, 32, 97, 114, 103, 117, 109, 101, 110, 116, 32,
      119, 97, 115, 32, 110, 117, 108, 108>>
\* "I do panic"
IDoPanic == <<73, 32, 100, 111, 32, 112, 97, 110, 105, 99>>
\* a panic description with an interior NUL: "A\0A"
NulDescription == <<65, 0, 65>>
\* message a callback puts on its own response for a recoverable error: "bad"
BadInput == <<98, 97, 100>>

\* BasicResponse::default()
DefaultResponse ==
    [status_code |-> FCPNoError, error_msg |-> NullPtr, is_valid |-> FALSE]

\* variant: a set_error that forgets the message
set_error_CodeOnly(resp, code, message) == [resp EXCEPT !.status_code = code]

\* code_and_message_impl!: set_error overwrites status_code and error_msg
set_error(resp, code, message) ==
    [resp EXCEPT !.status_code = code, !.error_msg = message]

\* raw_ptr: Box::into_raw(Box::new(thing))
raw_ptr(rs, thing) ==
    LET a == FreshAddr(rs) IN [ptr |-> a, responses |-> (a :> thing) @@ rs]

\* panic payloads (Box<dyn Any + Send>): a &'static str (panic!("literal")),
\* a String (panic!("{}", x)), or any other value (panic_any(42))
PayloadStr(d) == [kind |-> "str", desc |-> d]
PayloadString(d) == [kind |-> "String", desc |-> d]
PayloadOther == [kind |-> "other", desc |-> <<>>]
Descriptions == {IDoPanic, NulDescription}
Payloads ==
    {PayloadStr(d) : d \in Descriptions} \cup {PayloadString(IDoPanic), PayloadOther}

\* variant: the assertion message built with format arguments (a String payload)
cast_const_Formatted(x) ==
    IF x = NullPtr
    THEN [panic |-> TRUE, payload |-> PayloadString(ObjectArgumentWasNull), ref |-> NullPtr]
    ELSE [panic |-> FALSE, payload |-> PayloadOther, ref |-> x]

\* cast_const: assert!(!x.is_null(), "Object argument was null"); &*x
cast_const(x) ==
    IF x = NullPtr
    THEN [panic |-> TRUE, payload |-> PayloadStr(ObjectArgumentWasNull), ref |-> NullPtr]
    ELSE [panic |-> FALSE, payload |-> PayloadOther, ref |-> x]

\* variant: an empty description when the downcast fails
error_msg_of_EmptyFallback(payload) ==
    IF payload.kind = "str" THEN payload.desc ELSE <<>>

\* panic.downcast_ref::<&'static str>() with the "no unwind information" default
error_msg_of(payload) ==
    IF payload.kind = "str" THEN payload.desc ELSE NoUnwindInformation

\* format!("Rust panic: {}", error_msg)
format_panic(error_msg) == RustPanicPrefix \o error_msg

\* ------------------------------------------------------------------ state
Calls == 1..NumCalls
\* Result<*mut T, Box<dyn Any + Send>> of catch_unwind; site records where the
\* callback panicked ("panic!" or "cast_const")
NoResult == [tag |-> "None", value |-> NullPtr, payload |-> PayloadOther, site |-> ""]
Ok(v) == [tag |-> "Ok", value |-> v, payload |-> PayloadOther, site |-> ""]
Err(p, site) == [tag |-> "Err", value |-> NullPtr, payload |-> p, site |-> site]

VARIABLES
    responses,    \* heap of boxed responses: address -> response
    cstrs,        \* heap of C strings: address -> [bytes, live]
    owner,        \* which call, and which side of it, boxed each response
    cowner,       \* the same for the C strings
    phase,        \* per call: position in catch_panic_response
    maybe_panic,  \* per call: what catch_unwind(callback) returned
    response,     \* per call: the local `response` of the Err arm
    ret,          \* per call: the pointer catch_panic_response returned
    snapshot,     \* per call: the pointee as the callback returned it
    input,        \* marshaling: the text given to rust_str_to_c_str
    cbuf,         \* marshaling: the pointer rust_str_to_c_str returned
    encoded,      \* marshaling: "not", "ok" or "panic"
    decoded,      \* marshaling: the last c_str_to_rust_str call, [ptr, text]
    freed         \* marshaling: free_c_str was called on cbuf

callVars == <<responses, owner, cowner, phase, maybe_panic, response, ret, snapshot>>
strVars == <<input, cbuf, encoded, decoded, freed>>
vars == <<responses, cstrs, owner, cowner, phase, maybe_panic, response, ret,
          snapshot, input, cbuf, encoded, decoded, freed>>

NoText == [ptr |-> NullPtr, text |-> <<-1>>]

InitCalls ==
    /\ responses = <<>>
    /\ cstrs = <<>>
    /\ owner = <<>>
    /\ cowner = <<>>
    /\ phase = [c \in Calls |-> "idle"]
    /\ maybe_panic = [c \in Calls |-> NoResult]
    /\ response = [c \in Calls |-> DefaultResponse]
    /\ ret = [c \in Calls |-> NullPtr]
    /\ snapshot = [c \in Calls |-> DefaultResponse]

InitStr ==
    /\ cbuf = NullPtr
    /\ encoded = "not"
    /\ decoded = NoText
    /\ freed = FALSE

Init == InitCalls /\ InitStr /\ input = <<>>

\* responses the callback of call c has boxed
OpAllocs(c) == {a \in DOMAIN owner : owner[a] = [call |-> c, by |-> "callback"]}

\* ------------------------------------------------------------------ callback
\* an FFI entry point calls catch_panic_response(callback)
CallStart(c) ==
    /\ phase[c] = "idle"
    /\ phase' = [phase EXCEPT ![c] = "running"]
    /\ UNCHANGED <<responses, cstrs, owner, cowner, maybe_panic, response, ret,
                   snapshot, strVars>>

\* callback: let mut response = T::default(); response.is_valid = v; raw_ptr(response)
OpRawPtr(c, v, max) ==
    /\ phase[c] = "running"
    /\ Cardinality(OpAllocs(c)) < max
    /\ LET r == raw_ptr(responses, [DefaultResponse EXCEPT !.is_valid = v])
       IN  /\ responses' = r.responses
           /\ owner' = (r.ptr :> [call |-> c, by |-> "callback"]) @@ owner
    /\ UNCHANGED <<cstrs, cowner, phase, maybe_panic, response, ret, snapshot, strVars>>

\* callback: (*p).set_error((code, rust_str_to_c_str("bad"))), a recoverable error
OpSetError(c, p, code) ==
    /\ phase[c] = "running"
    /\ p \in OpAllocs(c)
    /\ responses[p].status_code = FCPNoError
    /\ LET m == rust_str_to_c_str(cstrs, BadInput)
       IN  /\ ~m.panic
           /\ cstrs' = m.cstrs
           /\ cowner' = (m.ptr :> [call |-> c, by |-> "callback"]) @@ cowner
           /\ responses' = [responses EXCEPT ![p] = set_error(@, code, m.ptr)]
    /\ UNCHANGED <<owner, phase, maybe_panic, response, ret, snapshot, strVars>>

\* callback panics with some payload; catch_unwind returns Err(payload)
OpPanic(c, payload) ==
    /\ phase[c] = "running"
    /\ maybe_panic' = [maybe_panic EXCEPT ![c] = Err(payload, "panic!")]
    /\ phase' = [phase EXCEPT ![c] = "caught"]
    /\ UNCHANGED <<responses, cstrs, owner, cowner, response, ret, snapshot, strVars>>

\* callback calls cast_const(x): the assertion panics on null, else the
\* callback reads through the reference
OpCastConst(c, x) ==
    /\ phase[c] = "running"
    /\ x \in {NullPtr} \cup OpAllocs(c)
    /\ LET r == cast_const(x)
       IN  IF r.panic
           THEN /\ maybe_panic' = [maybe_panic EXCEPT ![c] = Err(r.payload, "cast_const")]
                /\ phase' = [phase EXCEPT ![c] = "caught"]
           ELSE UNCHANGED <<maybe_panic, phase>>
    /\ UNCHANGED <<responses, cstrs, owner, cowner, response, ret, snapshot, strVars>>

\* callback returns a response it boxed; catch_unwind returns Ok(p)
OpReturn(c, p) ==
    /\ phase[c] = "running"
    /\ p \in OpAllocs(c)
    /\ maybe_panic' = [maybe_panic EXCEPT ![c] = Ok(p)]
    /\ snapshot' = [snapshot EXCEPT ![c] = responses[p]]
    /\ phase' = [phase EXCEPT ![c] = "ok"]
    /\ UNCHANGED <<responses, cstrs, owner, cowner, response, ret, strVars>>

\* ------------------------------------------------------------------ wrapper
\* variant: the Ok arm resets status and message of the pointee
MatchOkClearsError(c) ==
    /\ phase[c] = "ok"
    /\ ret' = [ret EXCEPT ![c] = maybe_panic[c].value]
    /\ responses' = [responses EXCEPT
                       ![maybe_panic[c].value] = set_error(@, FCPNoError, NullPtr)]
    /\ phase' = [phase EXCEPT ![c] = "returned"]
    /\ UNCHANGED <<cstrs, owner, cowner, maybe_panic, response, snapshot, strVars>>

\* variant: the Ok arm moves the pointee into a box of its own
MatchOkReboxes(c) ==
    /\ phase[c] = "ok"
    /\ LET r == raw_ptr(responses, responses[maybe_panic[c].value])
       IN  /\ responses' = r.responses
           /\ owner' = (r.ptr :> [call |-> c, by |-> "wrapper"]) @@ owner
           /\ ret' = [ret EXCEPT ![c] = r.ptr]
    /\ phase' = [phase EXCEPT ![c] = "returned"]
    /\ UNCHANGED <<cstrs, cowner, maybe_panic, response, snapshot, strVars>>

\* Ok(return_value) => return_value
MatchOk(c) ==
    /\ phase[c] = "ok"
    /\ ret' = [ret EXCEPT ![c] = maybe_panic[c].value]
    /\ phase' = [phase EXCEPT ![c] = "returned"]
    /\ UNCHANGED <<responses, cstrs, owner, cowner, maybe_panic, response,
                   snapshot, strVars>>

\* Err(panic) =>, first half: error_msg, T::default() (which may itself
\* panic), CString::new(format!(..)).unwrap().into_raw().  A panic here is
\* outside catch_unwind and unwinds out of catch_panic_response.
MatchErrMessage(c, default_panics) ==
    /\ phase[c] = "caught"
    /\ LET error_msg == error_msg_of(maybe_panic[c].payload)
           cs == CStringNew(Utf8(format_panic(error_msg)))
       IN  IF default_panics \/ ~cs.ok
           THEN /\ phase' = [phase EXCEPT ![c] = "escaped"]
                /\ UNCHANGED <<cstrs, cowner, response>>
           ELSE LET m == into_raw(cstrs, cs.bytes)
                IN  /\ cstrs' = m.cstrs
                    /\ cowner' = (m.ptr :> [call |-> c, by |-> "wrapper"]) @@ cowner
                    /\ response' = [response EXCEPT
                                      ![c] = [local |-> DefaultResponse, message |-> m.ptr]]
                    /\ phase' = [phase EXCEPT ![c] = "message"]
    /\ UNCHANGED <<responses, owner, maybe_panic, ret, snapshot, strVars>>

\* Err(panic) =>, second half: response.set_error((FCPUnclassifiedError,
\* message)); raw_ptr(response)
MatchErrRawPtr(c) ==
    /\ phase[c] = "message"
    /\ LET r == raw_ptr(responses,
                        set_error(response[c].local, FCPUnclassifiedError,
                                  response[c].message))
       IN  /\ responses' = r.responses
           /\ owner' = (r.ptr :> [call |-> c, by |-> "wrapper"]) @@ owner
           /\ ret' = [ret EXCEPT ![c] = r.ptr]
    /\ phase' = [phase EXCEPT ![c] = "returned"]
    /\ UNCHANGED <<cstrs, cowner, maybe_panic, response, snapshot, strVars>>

\* what the callbacks of a run may do: the values they give is_valid, the
\* recoverable codes they set, the payloads they panic with, and how many
\* responses each may box
AnyCallback ==
    [valids |-> BOOLEAN, codes |-> {FCPCallerError, FCPReceiverError},
     payloads |-> Payloads, allocs |-> MaxOpAllocs]
\* the callbacks of tests/catch_panic_response.rs (one boxed response with
\* is_valid = true, or panic!("I do panic")), plus a recoverable error
TestCallback ==
    [valids |-> {TRUE}, codes |-> {FCPCallerError},
     payloads |-> {PayloadStr(IDoPanic)}, allocs |-> 1]

Step(c, cb) ==
    \/ CallStart(c)
    \/ \E payload \in cb.payloads : OpPanic(c, payload)
    \/ \E x \in {NullPtr} \cup DOMAIN responses : OpCastConst(c, x)
    \/ \E v \in cb.valids : OpRawPtr(c, v, cb.allocs)
    \/ \E p \in DOMAIN responses, code \in cb.codes : OpSetError(c, p, code)
    \/ \E p \in DOMAIN responses : OpReturn(c, p)
    \/ MatchOk(c)
    \/ \E default_panics \in BOOLEAN : MatchErrMessage(c, default_panics)
    \/ MatchErrRawPtr(c)

\* one guarded call, with everything a callback may do
Next == Step(1, AnyCallback)
Spec == Init /\ [][Next]_vars

\* ------------------------------------------------------------------ marshaling
\* all texts of at most MaxLen code points
Texts == UNION {[1..n -> Chars] : n \in 0..MaxLen}

InitMarshal == InitCalls /\ InitStr /\ input \in Texts

\* pointers the caller may pass on: null, or the buffer it got while it is live
CallerHolds(x) == IF x = NullPtr THEN TRUE ELSE x = cbuf /\ cstrs[x].live

\* the caller encodes its text: rust_str_to_c_str(input)
Encode ==
    /\ encoded = "not"
    /\ LET r == rust_str_to_c_str(cstrs, input)
       IN  IF r.panic
           THEN /\ encoded' = "panic"
                /\ UNCHANGED <<cstrs, cbuf>>
           ELSE /\ encoded' = "ok"
                /\ cstrs' = r.cstrs
                /\ cbuf' = r.ptr
    /\ UNCHANGED <<callVars, input, decoded, freed>>

\* the caller decodes a pointer it holds: null, or the live buffer
Decode(x) ==
    /\ encoded # "panic"
    /\ CallerHolds(x)
    /\ LET r == c_str_to_rust_str(cstrs, x)
       IN  /\ decoded' = [ptr |-> x, text |-> r.text]
           /\ cstrs' = r.cstrs
    /\ UNCHANGED <<callVars, input, cbuf, encoded, freed>>

\* the caller releases a pointer it holds: null, or the live buffer
Free(x) ==
    /\ encoded # "panic"
    /\ CallerHolds(x)
    /\ cstrs' = free_c_str(cstrs, x)
    /\ freed' = (freed \/ x # NullPtr)
    /\ UNCHANGED <<callVars, input, cbuf, encoded, decoded>>

NextMarshal ==
    \/ Encode
    \/ \E x \in {NullPtr, cbuf} : Decode(x)
    \/ \E x \in {NullPtr, cbuf} : Free(x)
SpecMarshal == InitMarshal /\ [][NextMarshal]_vars

\* ------------------------------------------------------------------ threads
\* NumCalls guarded calls on independent threads, interleaved step by step
NextConc == \E c \in Calls : Step(c, TestCallback)
SpecConc == Init /\ [][NextConc]_vars

\* ------------------------------------------------------------------ claims
Returned(c) == phase[c] = "returned"
Panicked(c) == maybe_panic[c].tag = "Err"
Payload(c) == maybe_panic[c].payload
\* the text a C caller reads from a message buffer
TextAt(x) == to_string_lossy(CStrFromPtr(cstrs, x))
\* responses and C strings boxed during call c by one side of it
Boxed(c, side) == {a \in DOMAIN owner : owner[a] = [call |-> c, by |-> side]}
BoxedStr(c, side) == {a \in DOMAIN cowner : cowner[a] = [call |-> c, by |-> side]}
\* the callback panicked in cast_const(null)
CastNull(c) == maybe_panic[c].site = "cast_const"

\* C1: no panic ever escapes catch_panic_response, whatever the callback does
\* (any payload, a description with a NUL byte, a panicking T::default()).
C1_NoPanicEscapes == \A c \in Calls : phase[c] # "escaped"

\* C2: when the callback panics with a description D, carried as a &'static
\* str or as a String, the returned message reads "Rust panic: " followed by D.
C2_MessageIsPrefixPlusDescription ==
    \A c \in Calls :
        (Returned(c) /\ Panicked(c) /\ Payload(c).kind \in {"str", "String"})
        => /\ responses[ret[c]].error_msg # NullPtr
           /\ TextAt(responses[ret[c]].error_msg) = RustPanicPrefix \o Payload(c).desc

\* C3: when the callback panicked, the returned response has status
\* FCPUnclassifiedError, a non-null (live) message buffer, and every other
\* field at its default value, whatever the callback wrote to its own responses.
C3_PanicResponseIsDefaultWithError ==
    \A c \in Calls :
        (Returned(c) /\ Panicked(c))
        => LET r == responses[ret[c]]
           IN  /\ r.status_code = FCPUnclassifiedError
               /\ r.error_msg # NullPtr
               /\ r.error_msg \in DOMAIN cstrs
               /\ cstrs[r.error_msg].live
               /\ [r EXCEPT !.status_code = DefaultResponse.status_code,
                            !.error_msg = DefaultResponse.error_msg] = DefaultResponse

\* a panicking callback had boxed a valid response carrying a caller error
C3_Witness ==
    \E c \in Calls :
        /\ Returned(c) /\ Panicked(c)
        /\ \E a \in Boxed(c, "callback") :
              responses[a].is_valid /\ responses[a].status_code = FCPCallerError

\* C4: when the callback returns without panicking, the wrapper returns the
\* very pointer the callback returned and the pointee is as the callback left
\* it, also when the callback had set a recoverable error on it.
C4_OkPassesThrough ==
    \A c \in Calls :
        (Returned(c) /\ maybe_panic[c].tag = "Ok")
        => /\ ret[c] = maybe_panic[c].value
           /\ ret[c] \in Boxed(c, "callback")
           /\ responses[ret[c]] = snapshot[c]

\* a callback returned a valid response carrying a receiver error
C4_Witness ==
    \E c \in Calls :
        /\ Returned(c) /\ maybe_panic[c].tag = "Ok"
        /\ responses[ret[c]].status_code = FCPReceiverError
        /\ responses[ret[c]].error_msg # NullPtr
        /\ responses[ret[c]].is_valid

\* C5: rust_str_to_c_str on a text with an embedded NUL hands its caller a
\* failure signal (no buffer) and does not panic.
C5_NulIsRecoverable ==
    (HasNul(input) /\ encoded # "not") => (encoded # "panic" /\ cbuf = NullPtr)

C7_NoDescriptionMessage ==
    \A c \in Calls :
        (Returned(c) /\ Panicked(c) /\ Payload(c).kind = "other")
        => /\ responses[ret[c]].error_msg # NullPtr
           /\ TextAt(responses[ret[c]].error_msg)
                = RustPanicPrefix \o NoUnwindInformation

\* a call whose callback panicked with a non-string payload has returned
C7_Witness ==
    \E c \in Calls : Returned(c) /\ Panicked(c) /\ Payload(c).kind = "other"

\* C8 as stated: when a call has returned, the response whose address it
\* returned is the only response boxed during the call.
C8_ExactlyOneResponsePerCall ==
    \A c \in Calls :
        Returned(c) => Boxed(c, "callback") \cup Boxed(c, "wrapper") = {ret[c]}

\* C8 amended: the wrapper boxes a response only on the failure path, at most
\* one, and that one is the response it returns together with the one message
\* buffer it made; on the normal path it boxes nothing and returns a response
\* the callback boxed; it frees nothing.  (Responses the callback boxed and
\* did not return stay on the heap beside the returned one.)
C8_WrapperBoxesOnlyOnFailure ==
    /\ \A c \in Calls :
          /\ ~(Returned(c) /\ Panicked(c))
             => Boxed(c, "wrapper") = {}
          /\ (Returned(c) /\ Panicked(c))
             => /\ Boxed(c, "wrapper") = {ret[c]}
                /\ BoxedStr(c, "wrapper") = {responses[ret[c]].error_msg}
          /\ (Returned(c) /\ ~Panicked(c))
             => /\ ret[c] \in Boxed(c, "callback")
                /\ BoxedStr(c, "wrapper") = {}
          /\ phase[c] = "escaped" => BoxedStr(c, "wrapper") = {}
    /\ \A a \in DOMAIN cstrs : cstrs[a].live
    /\ DOMAIN owner = DOMAIN responses

\* a callback boxed two responses and then panicked; the wrapper returned a third
C8_Witness ==
    \E c \in Calls :
        /\ Returned(c) /\ Panicked(c)
        /\ Cardinality(Boxed(c, "callback")) = 2
        /\ Boxed(c, "wrapper") = {ret[c]}

\* C9: for a text without NUL, c_str_to_rust_str of the buffer made by
\* rust_str_to_c_str is that text; decoding leaves the buffer live, and it is
\* dead only once free_c_str has been called on it.
C9_RoundTrip ==
    /\ (~HasNul(input) /\ encoded # "not") => (encoded = "ok" /\ cbuf # NullPtr)
    /\ (decoded.ptr # NullPtr /\ decoded.ptr = cbuf) => decoded.text = input
    /\ encoded = "ok" => cstrs[cbuf].live = ~freed

\* a text with a two-byte character was encoded, decoded and then freed
C9_Witness ==
    /\ encoded = "ok"
    /\ decoded.ptr = cbuf
    /\ freed
    /\ Len(input) >= 2
    /\ \E i \in 1..Len(input) : input[i] > 127

\* C10: in every interleaving of concurrent calls, a returned response was
\* boxed by its own call and is determined by that call's callback alone, and
\* the responses and message buffers of different calls are distinct objects.
C10_CallsIndependent ==
    /\ \A c \in Calls :
          Returned(c)
          => /\ owner[ret[c]].call = c
             /\ ~Panicked(c) => responses[ret[c]] = snapshot[c]
             /\ responses[ret[c]].error_msg # NullPtr
                => cowner[responses[ret[c]].error_msg].call = c
             /\ Panicked(c)
                => /\ responses[ret[c]].status_code = FCPUnclassifiedError
                   /\ responses[ret[c]].is_valid = DefaultResponse.is_valid
                   /\ responses[ret[c]].error_msg # NullPtr
                   /\ TextAt(responses[ret[c]].error_msg)
                        = RustPanicPrefix
                            \o (IF Payload(c).kind = "str" THEN Payload(c).desc
                                ELSE NoUnwindInformation)
    /\ \A c, d \in Calls :
          (c # d /\ Returned(c) /\ Returned(d))
          => /\ ret[c] # ret[d]
             /\ responses[ret[c]].error_msg # NullPtr
                => responses[ret[c]].error_msg # responses[ret[d]].error_msg

\* two calls have returned, one on the failure path and one passing through a
\* response with a message of its own
C10_Witness ==
    \E c, d \in Calls :
        /\ c # d /\ Returned(c) /\ Returned(d)
        /\ Panicked(c) /\ ~Panicked(d)
        /\ responses[ret[d]].error_msg # NullPtr
        /\ ret[c] < ret[d]

====
